---- MODULE Spec2Model ----
(***************************************************************************)
(* Einstein summation over array views (src/einsum.h).                     *)
(*                                                                         *)
(* An operand is a pair (accessor, label list).  The accessor is an array  *)
(* view (a shape: one dim (min, extent, stride) per axis, over a buffer)   *)
(* or a callable.  einsum reconciles, per label, the dims the result and   *)
(* the operands contribute, walks the resulting shape and accumulates the  *)
(* product of the operands into the result's buffer.  Assertions are       *)
(* modelled as enabled: a failed assertion ends the call ("failed").       *)
(***************************************************************************)
EXTENDS Integers, Sequences, FiniteSets, TLC

\* Bounds of the model.
MaxExtent == 2
MaxCalls == 2

\* The summation labels (the constexpr values i, j of the documentation).
Labels == {0, 1}
\* What a read outside an operand's buffer may return.
Garbage == {0, 3}

---------------------------------------------------------------------------
(* The array collaborator (array.h): dims, shapes, iteration.              *)

\* dim<>: a lower bound, an extent and a stride.
Dim(mn, ex, st) == [min |-> mn, extent |-> ex, stride |-> st]

dim_max(d) == d.min + d.extent - 1

\* dim::is_in_range(interval): the interval `at` lies within d.
is_in_range(d, at) == d.min <= at.min /\ dim_max(at) <= dim_max(d)

\* index_of<Dim, Is...>(): the first position of Dim in Is, or a position
\* past every tuple when Dim is not in Is.
index_of(D, Is) ==
  IF \E k \in 1..Len(Is) : Is[k] = D
  THEN CHOOSE k \in 1..Len(Is) : Is[k] = D /\ \A j \in 1..(k - 1) : Is[j] # D
  ELSE 10000

\* get_tuple<I>(t): the one-element tuple of t's I-th element, or the empty
\* tuple when t has no I-th element.
get_tuple(I, t) == IF I <= Len(t) THEN <<t[I]>> ELSE <<>>

RECURSIVE tuple_cat(_)
tuple_cat(ts) == IF ts = <<>> THEN <<>> ELSE Head(ts) \o tuple_cat(Tail(ts))

RECURSIVE number_of_elements(_)
number_of_elements(dims) ==
  IF dims = <<>> THEN 1 ELSE Head(dims).extent * number_of_elements(Tail(dims))

\* shape::operator(): the flat offset of the index i, the sum of
\* dim.flat_offset(i) = (i - min) * stride over the dims.
RECURSIVE shape_at(_, _)
shape_at(dims, i) ==
  IF dims = <<>> THEN 0
  ELSE (Head(i) - Head(dims).min) * Head(dims).stride + shape_at(Tail(dims), Tail(i))

\* for_each_index(shape, fn): the indices of the shape in the order fn is
\* called with them; the first dim is the innermost loop, the last dim the
\* outermost.
RECURSIVE for_each_index(_)
for_each_index(dims) ==
  IF dims = <<>> THEN << <<>> >>
  ELSE LET n == Len(dims)
           outer == dims[n]
           inner == for_each_index(SubSeq(dims, 1, n - 1))
           m == Len(inner)
       IN  [p \in 1..(m * outer.extent) |->
              Append(inner[((p - 1) % m) + 1], outer.min + ((p - 1) \div m))]

\* make_compact(shape): the dims with dense strides, the first dim innermost.
make_compact(dims) ==
  [k \in 1..Len(dims) |->
     Dim(dims[k].min, dims[k].extent, number_of_elements(SubSeq(dims, 1, k - 1)))]

\* make_array<T>(shape, init, alloc): a buffer with every element init.
make_array(dims, init) == [o \in 0..(number_of_elements(dims) - 1) |-> init]

\* variadic_max over a set of label lists; no label at all gives -1.
max(Is) == IF Is = <<>> THEN -1
           ELSE CHOOSE x \in {Is[k] : k \in 1..Len(Is)} :
                  \A k \in 1..Len(Is) : Is[k] <= x

variadic_max(xs) == CHOOSE x \in xs : \A y \in xs : y <= x

---------------------------------------------------------------------------
(* Operands (ein<Is...>(op)) and their contents.                           *)

\* The intervals an axis may span: extents within one of MaxExtent.
Intervals ==
  {iv \in [min : {0, 1}, extent : (MaxExtent - 1)..MaxExtent] :
     iv.min + iv.extent <= MaxExtent}

\* The intervals the axes of a rank 2 array span: those starting at 0.
Sides == {iv \in Intervals : iv.min = 0}

LabelLists(n) == [1..n -> Labels]

\* ein<Is...>(array): the array's dims and the labels, one per axis.
ein(kind, Is, dims, seed) == [kind |-> kind, Is |-> Is, dims |-> dims, seed |-> seed]

\* Rank 1 arrays (the axis may be a broadcast, stride 0) and dense rank 2
\* arrays, bound to every label list of their rank.
ArrayOperands(seed) ==
  {ein("array", Is, <<Dim(iv.min, iv.extent, st)>>, seed) :
     Is \in LabelLists(1), iv \in Intervals, st \in {0, 1}}
  \cup
  {ein("array", Is, make_compact(<<Dim(a.min, a.extent, 1), Dim(b.min, b.extent, 1)>>), seed) :
     Is \in LabelLists(2), a \in Sides, b \in Sides}

\* A scalar (ein(scalar): a rank 0 array_ref), a callable of one argument,
\* or a dense rank 1 array.
SmallOperands(seed) ==
  {ein("array", <<>>, <<>>, seed)}
  \cup {ein("fn", Is, <<>>, seed) : Is \in LabelLists(1)}
  \cup {ein("array", Is, <<Dim(iv.min, iv.extent, 1)>>, seed) :
          Is \in LabelLists(1), iv \in Intervals}

OperandLists ==
  {<<a>> : a \in ArrayOperands(1)}
  \cup {<<a, b>> : a \in ArrayOperands(1), b \in SmallOperands(2)}

\* The result bindings of the non-allocating entry point: dense arrays of
\* rank 0, 1 and 2.
ResultBindings ==
  {[Is |-> <<>>, dims |-> <<>>]}
  \cup {[Is |-> Is, dims |-> <<Dim(iv.min, iv.extent, 1)>>] :
          Is \in LabelLists(1), iv \in Intervals}
  \cup {[Is |-> Is,
         dims |-> make_compact(<<Dim(a.min, a.extent, 1), Dim(b.min, b.extent, 1)>>)] :
          Is \in LabelLists(2), a \in Sides, b \in Sides}

ResultLabelLists == LabelLists(0) \cup LabelLists(1) \cup LabelLists(2)

\* The number of elements of the buffer a shape addresses.
RECURSIVE buffer_size(_)
buffer_size(dims) ==
  IF dims = <<>> THEN 1
  ELSE (Head(dims).extent - 1) * Head(dims).stride + buffer_size(Tail(dims))

\* The element an array operand holds at a flat offset of its buffer, and
\* the value a callable operand returns.
array_data(op, off) == op.seed + off
fn_value(op, coords) == op.seed + 2 * coords[1]

\* std::get<Is>(i)...: the index i projected onto the labels Is.
project(Is, i) == [k \in 1..Len(Is) |-> i[Is[k] + 1]]

in_bounds(dims, coords) ==
  \A k \in 1..Len(dims) : dims[k].min <= coords[k] /\ coords[k] <= dim_max(dims[k])

in_buffer(dims, off) == 0 <= off /\ off < buffer_size(dims)

---------------------------------------------------------------------------
(* einsum.h, namespace internal.                                           *)

\* reduction(d): the dim with its bounds kept and stride 0.
reduction(d) == Dim(d.min, d.extent, 0)

reductions(dims) == [k \in 1..Len(dims) |-> reduction(dims[k])]

\* reconcile_dim without its first assertion: operands that all have stride
\* 0 are no longer required to have equal dims.
reconcile_dim_NoEqualityCheck(dims) ==
  IF dims = <<>> THEN [ok |-> TRUE, dim |-> Dim(0, 1, 0)]
  ELSE [ok |-> \A k \in 2..Len(dims) : is_in_range(dims[k], dims[1]),
        dim |-> dims[1]]

\* reconcile_dim preferring the first dim with a nonzero stride to dim0.
reconcile_dim_FirstReal(dims) ==
  IF dims = <<>> THEN [ok |-> TRUE, dim |-> Dim(0, 1, 0)]
  ELSE LET real == {k \in 1..Len(dims) : dims[k].stride # 0}
           c == IF real = {} THEN 1
                ELSE CHOOSE k \in real : \A j \in real : k <= j
       IN  [ok |-> /\ \/ real # {}
                      \/ \A k \in 2..Len(dims) : dims[1] = dims[k]
                   /\ \A k \in 1..Len(dims) : is_in_range(dims[k], dims[c]),
            dim |-> dims[c]]

\* reconcile_dim whose dummy loop has two iterations.
reconcile_dim_WideDummy(dims) ==
  IF dims = <<>> THEN [ok |-> TRUE, dim |-> Dim(0, 2, 0)]
  ELSE [ok |-> /\ \/ \E k \in 1..Len(dims) : dims[k].stride # 0
                  \/ \A k \in 2..Len(dims) : dims[1] = dims[k]
               /\ \A k \in 2..Len(dims) : is_in_range(dims[k], dims[1]),
        dim |-> dims[1]]

\* reconcile_dim(dim0, dims...) and reconcile_dim(): the dim the loop of one
\* label uses, and whether both assertions passed.  No dim at all gives the
\* dummy dim<0, 1, 0>.
reconcile_dim(dims) ==
  IF dims = <<>> THEN [ok |-> TRUE, dim |-> Dim(0, 1, 0)]
  ELSE [ok |-> /\ \/ \E k \in 1..Len(dims) : dims[k].stride # 0
                  \/ \A k \in 2..Len(dims) : dims[1] = dims[k]
               /\ \A k \in 2..Len(dims) : is_in_range(dims[k], dims[1]),
        dim |-> dims[1]]

\* An operand as gather_dim sees it: (dims, labels).
einsum_op(dims, Is) == [dims |-> dims, Is |-> Is]

\* gather_dim<Dim>(op): the dim of the first axis op binds to Dim, if any.
gather_dim(D, op) == get_tuple(index_of(D, op.Is), op.dims)

\* gather_dims<Dim>(ops...)
gather_dims(D, ops) ==
  reconcile_dim(tuple_cat([k \in 1..Len(ops) |-> gather_dim(D, ops[k])]))

\* make_reduction_shape(index_sequence<0 .. LoopRank-1>, dims...)
make_reduction_shape(rank, ops) == [k \in 1..rank |-> gather_dims(k - 1, ops)]

\* ein_shape(op): the dims of an array operand, no dims for a callable.
ein_shape(op) == IF op.kind = "array" THEN op.dims ELSE <<>>

\* ein_at(op, i): the operand called with the index i shuffled by its
\* labels.  mem gives what the memory outside an array's buffer holds.
ein_at(op, i, mem) ==
  LET coords == project(op.Is, i)
      off == shape_at(op.dims, coords)
  IN  IF op.kind = "fn" THEN fn_value(op, coords)
      ELSE IF in_buffer(op.dims, off) THEN array_data(op, off)
      ELSE mem[<<op.seed, off>>]

RECURSIVE product(_)
product(vs) == IF vs = <<>> THEN 1 ELSE Head(vs) * product(Tail(vs))

\* LoopRank of einsum_impl: one more than the largest label of the result
\* and the operands.
LoopRank(result, ops) ==
  1 + variadic_max({max(result.Is)} \cup {max(ops[k].Is) : k \in 1..Len(ops)})

\* The pairs in the wrong order: the operands before the result.
reduction_operands_ResultLast(result, ops) ==
  [k \in 1..Len(ops) |-> einsum_op(reductions(ein_shape(ops[k])), ops[k].Is)]
  \o <<einsum_op(result.dims, result.Is)>>

\* The pairs einsum_impl hands to make_reduction_shape: the result with its
\* own dims first, then every operand with reduction dims.
reduction_operands(result, ops) ==
  <<einsum_op(result.dims, result.Is)>>
  \o [k \in 1..Len(ops) |-> einsum_op(reductions(ein_shape(ops[k])), ops[k].Is)]

\* The for_each_index loop of einsum_impl from the p-th index on.
RECURSIVE accumulate(_, _, _, _, _, _)
accumulate(shape, idxs, ops, base, mem, p) ==
  IF p > Len(idxs) THEN base
  ELSE LET i == idxs[p]
           v == product([k \in 1..Len(ops) |-> ein_at(ops[k], i, mem)])
       IN  accumulate(shape, idxs, ops,
                      [base EXCEPT ![shape_at(shape, i)] = @ + v], mem, p + 1)

\* The reconciled dim of every label 0 .. LoopRank-1, as einsum_impl's call
\* of make_reduction_shape computes them.
reconciled_dims(result, ops) ==
  make_reduction_shape(LoopRank(result, ops), reduction_operands(result, ops))

reconciled_ok(result, ops) ==
  LET reconciled == reconciled_dims(result, ops)
  IN  \A k \in 1..Len(reconciled) : reconciled[k].ok

reduction_shape(result, ops) ==
  LET reconciled == reconciled_dims(result, ops)
  IN  [k \in 1..Len(reconciled) |-> reconciled[k].dim]

\* einsum_impl(result, ops...): ok is FALSE when an assertion of
\* reconcile_dim fails, which happens before the loop.
einsum_impl(result, ops, base, mem) ==
  IF ~reconciled_ok(result, ops)
  THEN [ok |-> FALSE, base |-> base, shape |-> <<>>, trace |-> <<>>]
  ELSE LET shape == reduction_shape(result, ops)
           idxs == for_each_index(shape)
       IN  [ok |-> TRUE, base |-> accumulate(shape, idxs, ops, base, mem, 1),
            shape |-> shape, trace |-> idxs]

\* without_stride(d): the bounds of d; make_compact gives the stride.
without_stride(r) == [ok |-> r.ok, dim |-> Dim(r.dim.min, r.dim.extent, 1)]

\* infer_result_shape<Is...>(dims...)
infer_result_shape(Is, ops) ==
  [k \in 1..Len(Is) |-> without_stride(gather_dims(Is[k], ops))]

\* make_einsum_shape<ResultIs...>(ops...): the operands keep their strides.
make_einsum_shape(ResultIs, ops) ==
  LET inferred == infer_result_shape(ResultIs,
                    [k \in 1..Len(ops) |-> einsum_op(ein_shape(ops[k]), ops[k].Is)])
  IN  [ok |-> \A k \in 1..Len(inferred) : inferred[k].ok,
       dims |-> make_compact([k \in 1..Len(inferred) |-> inferred[k].dim])]

\* make_einsum_impl<T, ResultIs...>(alloc, init, ops...)
make_einsum_impl(ResultIs, init, ops, mem) ==
  LET result_shape == make_einsum_shape(ResultIs, ops)
      result == [Is |-> ResultIs, dims |-> result_shape.dims]
  IN  IF ~result_shape.ok
      THEN [ok |-> FALSE, dims |-> <<>>, base |-> <<>>, shape |-> <<>>, trace |-> <<>>]
      ELSE LET r == einsum_impl(result, ops, make_array(result_shape.dims, init), mem)
           IN  [ok |-> r.ok, dims |-> result_shape.dims, base |-> r.base,
                shape |-> r.shape, trace |-> r.trace]

\* make_einsum<T, ResultIs...>(ops...): the result starts as T(0).
make_einsum(ResultIs, ops, mem) == make_einsum_impl(ResultIs, 0, ops, mem)

---------------------------------------------------------------------------
(* The caller: one binding of operands and result, called repeatedly.      *)

VARIABLES
  entry,      \* "einsum" or "make_einsum": the entry point of the first call
  ops,        \* the operands, in call order
  result,     \* the result binding: its labels and (once allocated) dims
  allocated,  \* whether the result array exists
  base,       \* the result's buffer, by flat offset
  pc,         \* "idle", "done" (the call returned) or "failed" (an assertion)
  calls,      \* the calls that returned since the result was last all zero
  first,      \* the outcome of the first call
  pre,        \* the result's buffer when the latest call started
  shape,      \* the reduction shape of the latest call
  trace,      \* the indices the latest call's loop visited, in order
  oob,        \* whether the latest call indexed an operand outside its bounds
  swapped     \* whether the operands are in the reverse of their first order

vars == <<entry, ops, result, allocated, base, pc, calls, first, pre, shape,
          trace, oob, swapped>>

\* The indices the loop of einsum_impl visits, none when reconciliation fails.
loop_indices(r, os) ==
  IF reconciled_ok(r, os) THEN for_each_index(reduction_shape(r, os)) ELSE <<>>

array_reads(os, idxs) ==
  {<<k, project(os[k].Is, idxs[p])>> :
     k \in {j \in 1..Len(os) : os[j].kind = "array"}, p \in 1..Len(idxs)}

\* The cells outside an operand's buffer that the loop reads.
oob_reads(os, idxs) ==
  {<<os[rd[1]].seed, shape_at(os[rd[1]].dims, rd[2])>> :
     rd \in {x \in array_reads(os, idxs) :
               ~in_buffer(os[x[1]].dims, shape_at(os[x[1]].dims, x[2]))}}

\* Whether the loop calls an array operand with an index outside its dims.
out_of_bounds(os, idxs) ==
  \E rd \in array_reads(os, idxs) : ~in_bounds(os[rd[1]].dims, rd[2])

\* The caller has bound the operands and an all zero result array.
Init ==
  /\ entry = "einsum"
  /\ ops \in OperandLists
  /\ allocated = TRUE
  /\ result \in ResultBindings
  /\ base = make_array(result.dims, 0)
  /\ pc = "idle"
  /\ calls = 0
  /\ first = [st |-> "none", data |-> <<>>]
  /\ pre = base
  /\ shape = <<>>
  /\ trace = <<>>
  /\ oob = FALSE
  /\ swapped = FALSE

\* The caller has bound the operands and chosen the result's labels; the
\* result array does not exist yet.
InitMake ==
  /\ entry = "make_einsum"
  /\ ops \in OperandLists
  /\ allocated = FALSE
  /\ result \in {[Is |-> Is, dims |-> <<>>] : Is \in ResultLabelLists}
  /\ base = <<>>
  /\ pc = "idle"
  /\ calls = 0
  /\ first = [st |-> "none", data |-> <<>>]
  /\ pre = base
  /\ shape = <<>>
  /\ trace = <<>>
  /\ oob = FALSE
  /\ swapped = FALSE

\* einsum(ops..., ein<Is...>(result)) on the existing result array.
Einsum ==
  /\ pc \in {"idle", "done"}
  /\ allocated
  /\ calls < MaxCalls
  /\ \E mem \in [oob_reads(ops, loop_indices(result, ops)) -> Garbage] :
       LET r == einsum_impl(result, ops, base, mem)
       IN  /\ pc' = IF r.ok THEN "done" ELSE "failed"
           /\ base' = r.base
           /\ pre' = base
           /\ shape' = r.shape
           /\ trace' = r.trace
           /\ oob' = out_of_bounds(ops, r.trace)
           /\ calls' = IF r.ok THEN calls + 1 ELSE calls
           /\ first' = IF first.st = "none"
                       THEN [st |-> IF r.ok THEN "done" ELSE "failed", data |-> r.base]
                       ELSE first
  /\ UNCHANGED <<entry, ops, result, allocated, swapped>>

\* make_einsum<T, ResultIs...>(ops...): infers the shape, allocates the
\* result and returns it.  When an assertion fails the caller gets no array.
MakeEinsum ==
  /\ pc = "idle"
  /\ ~allocated
  /\ LET inferred == make_einsum_shape(result.Is, ops)
         bound == [Is |-> result.Is, dims |-> inferred.dims]
     IN  \E mem \in [oob_reads(ops, IF inferred.ok THEN loop_indices(bound, ops) ELSE <<>>)
                       -> Garbage] :
           LET r == make_einsum(result.Is, ops, mem)
           IN  /\ pc' = IF r.ok THEN "done" ELSE "failed"
               /\ allocated' = r.ok
               /\ result' = IF r.ok THEN [result EXCEPT !.dims = r.dims] ELSE result
               /\ base' = IF r.ok THEN r.base ELSE base
               /\ pre' = IF r.ok THEN make_array(r.dims, 0) ELSE <<>>
               /\ shape' = r.shape
               /\ trace' = r.trace
               /\ oob' = out_of_bounds(ops, r.trace)
               /\ calls' = IF r.ok THEN 1 ELSE 0
               /\ first' = [st |-> IF r.ok THEN "done" ELSE "failed", data |-> base']
  /\ UNCHANGED <<entry, ops, swapped>>

\* The caller fills the result with zeros again.
Zero ==
  /\ pc = "done"
  /\ pc' = "idle"
  /\ base' = make_array(result.dims, 0)
  /\ pre' = base'
  /\ calls' = 0
  /\ shape' = <<>>
  /\ trace' = <<>>
  /\ oob' = FALSE
  /\ UNCHANGED <<entry, ops, result, allocated, first, swapped>>

\* The caller passes the same two operands in the other order, to the same
\* result with the contents it had before the first call.
Swap ==
  /\ entry = "einsum"
  /\ pc \in {"idle", "failed"}
  /\ first.st # "none"
  /\ calls = 0
  /\ Len(ops) = 2
  /\ ~swapped
  /\ ops' = <<ops[2], ops[1]>>
  /\ swapped' = TRUE
  /\ pc' = "idle"
  /\ UNCHANGED <<entry, result, allocated, base, calls, first, pre, shape, trace, oob>>

Next == Einsum \/ Zero \/ Swap

\* Calls of einsum on a result the caller allocated.
Spec == Init /\ [][Next]_vars

NextMake == MakeEinsum \/ Einsum \/ Zero

\* A call of make_einsum, and calls of einsum on the array it returned.
SpecMake == InitMake /\ [][NextMake]_vars

---------------------------------------------------------------------------
(* What the claims speak of.                                                *)

LabelsOf(Is) == {Is[k] : k \in 1..Len(Is)}

\* The axis of a binding that a label names when gathered: the first one.
FirstAxis(Is, L) == CHOOSE k \in 1..Len(Is) : Is[k] = L /\ \A j \in 1..(k - 1) : Is[j] # L

\* The array operands that declare label L, by position in call order.
Declaring(L) == {k \in 1..Len(ops) : ops[k].kind = "array" /\ L \in LabelsOf(ops[k].Is)}

\* The dim operand k declares for L.
DimOf(k, L) == ops[k].dims[FirstAxis(ops[k].Is, L)]

FirstOf(S) == CHOOSE k \in S : \A j \in S : k <= j

MaxUsedLabel ==
  LET used == LabelsOf(result.Is) \cup UNION {LabelsOf(ops[k].Is) : k \in 1..Len(ops)}
  IN  CHOOSE x \in used : \A y \in used : y <= x

\* Label L gets a dim from the result or from an array operand.
Contributes(L) == L \in LabelsOf(result.Is) \/ Declaring(L) # {}

SameBounds(d, e) == d.min = e.min /\ d.extent = e.extent

StrictlyContains(d, e) == is_in_range(d, e) /\ ~SameBounds(d, e)

\* Every index of a shape.
Coords(dims) ==
  {c \in [1..Len(dims) -> 0..MaxExtent] : in_bounds(dims, c)}

\* The value of an operand at an index within its bounds.
ValueAt(op, coords) ==
  IF op.kind = "fn" THEN fn_value(op, coords)
  ELSE array_data(op, shape_at(op.dims, coords))

ProductAt(c) == product([k \in 1..Len(ops) |-> ValueAt(ops[k], project(ops[k].Is, c))])

RECURSIVE SumOfProducts(_)
SumOfProducts(S) ==
  IF S = {} THEN 0
  ELSE LET c == CHOOSE y \in S : TRUE IN ProductAt(c) + SumOfProducts(S \ {c})

\* The sum of products the summation assigns to the result cell r.
Summed(r) == SumOfProducts({c \in Coords(shape) : project(result.Is, c) = r})

\* Every index of the iteration shape projects to a cell of the result.
ResultInBounds ==
  \A c \in Coords(shape) : in_bounds(result.dims, project(result.Is, c))

\* C1: after a call in which every index projects onto the result and onto
\* every array operand within their bounds, every result cell r holds its
\* value before the call plus the sum, over the indices of the iteration
\* shape that project to r, of the product of the operands, and the loop
\* visited every index of the iteration shape exactly once.
C1_SumOfProducts ==
  (pc = "done" /\ ~oob /\ ResultInBounds) =>
    /\ \A r \in Coords(result.dims) :
         base[shape_at(result.dims, r)] = pre[shape_at(result.dims, r)] + Summed(r)
    /\ Len(trace) = Cardinality(Coords(shape))
    /\ {trace[p] : p \in 1..Len(trace)} = Coords(shape)

\* The statement of C1 for result bindings that repeat no label.
C1_DistinctResultLabels ==
  (Cardinality(LabelsOf(result.Is)) = Len(result.Is)) => C1_SumOfProducts

\* Two array operands declare k with non-broadcast dims of different extents.
Conflict(k) ==
  \E a \in Declaring(k), b \in Declaring(k) :
    /\ a # b
    /\ DimOf(a, k).stride # 0 /\ DimOf(b, k).stride # 0
    /\ DimOf(a, k).extent # DimOf(b, k).extent

\* C2 as stated: whenever two array operands declare k with non-broadcast
\* dims of different extents, the call fails, whether or not the result
\* declares k.
C2_ConflictAlwaysFails ==
  \A k \in Labels : Conflict(k) => pc # "done"

\* C2 amended: whenever two array operands declare k with non-broadcast dims
\* of different extents and the result does not declare k, the call fails,
\* and the result's buffer is as it was before the call.
C2_ConflictFailsWithoutResultLabel ==
  \A k \in Labels :
    (Conflict(k) /\ k \notin LabelsOf(result.Is)) =>
      /\ pc # "done"
      /\ calls = 0
      /\ base = pre

C2_Witness ==
  /\ pc = "failed"
  /\ entry = "einsum"
  /\ \E k \in Labels : Conflict(k) /\ k \notin LabelsOf(result.Is)

\* C3: a call whose reconciliation succeeded indexes every array operand
\* within the operand's own bounds on every axis.
C3_NoOutOfBounds == pc = "done" => ~oob

\* C4: n calls in a row with the same operands on a result that was all zero
\* leave n times what the first call left; a call after zeroing the result
\* again leaves what the first call left.
C4_CallsAccumulate ==
  (pc = "done" /\ entry = "einsum" /\ ~swapped) =>
    \A o \in DOMAIN base : base[o] = calls * first.data[o]

\* C4 holds of every call that indexes its operands within their bounds.
C4_InBounds == ~oob => C4_CallsAccumulate

\* C5: the array make_einsum returned equals what einsum leaves in an all
\* zero array of the same shape bound to the same labels.
C5_MakeEinsumIsEinsumOnZero ==
  (pc = "done" /\ entry = "make_einsum" /\ calls = 1) => base = first.data

\* C5 holds of every call that indexes its operands within their bounds.
C5_InBounds == ~oob => C5_MakeEinsumIsEinsumOnZero

\* The dims of the allocated result follow its label list axis by axis.
Allocated == entry = "make_einsum" /\ allocated

\* C6 as stated: the bounds of each axis of the allocated result are those
\* of the first operand dim with that label that has a nonzero stride.
C6_FirstRealOperandDim ==
  Allocated =>
    \A a \in 1..Len(result.Is) :
      LET L == result.Is[a]
          real == {k \in Declaring(L) : DimOf(k, L).stride # 0}
      IN  real # {} => SameBounds(result.dims[a], DimOf(FirstOf(real), L))

\* C6 amended: the bounds of each axis of the allocated result are those of
\* the first operand dim with that label in call order, broadcast or not,
\* those of the dummy dim when no array operand declares the label, and the
\* result's strides are dense, not the operand's.
C6_FirstOperandDim ==
  Allocated =>
    /\ \A a \in 1..Len(result.Is) :
         LET L == result.Is[a]
         IN  IF Declaring(L) # {}
             THEN SameBounds(result.dims[a], DimOf(FirstOf(Declaring(L)), L))
             ELSE SameBounds(result.dims[a], Dim(0, 1, 0))
    /\ result.dims = make_compact(result.dims)

C6_Witness ==
  /\ Allocated
  /\ \E a \in 1..Len(result.Is) :
       LET L == result.Is[a]
       IN  \E k \in Declaring(L), j \in Declaring(L) :
             /\ k = FirstOf(Declaring(L))
             /\ DimOf(k, L).stride = 0
             /\ DimOf(j, L).stride # 0
             /\ ~SameBounds(DimOf(k, L), DimOf(j, L))

RECURSIVE ExtentProduct(_)
ExtentProduct(S) ==
  IF S = {} THEN 1
  ELSE LET L == CHOOSE y \in S : TRUE IN shape[L + 1].extent * ExtentProduct(S \ {L})

\* C7: the iteration shape has one dim per label 0 .. max used label; a
\* label without a contributing dim has the dummy dim (0, 1, 0), is visited
\* at 0 only, and the number of iterations is the product of the extents of
\* the other labels.
C7_IterationRank ==
  pc = "done" =>
    /\ Len(shape) = MaxUsedLabel + 1
    /\ \A L \in 0..MaxUsedLabel :
         ~Contributes(L) =>
           /\ shape[L + 1] = Dim(0, 1, 0)
           /\ \A p \in 1..Len(trace) : trace[p][L + 1] = 0
    /\ Len(trace) = ExtentProduct({L \in 0..MaxUsedLabel : Contributes(L)})

C7_Witness ==
  /\ pc = "done"
  /\ \E L \in 0..MaxUsedLabel :
       /\ ~Contributes(L)
       /\ \E k \in 1..Len(ops) : ops[k].kind = "fn" /\ L \in LabelsOf(ops[k].Is)
  /\ Len(trace) > 1

\* The canonical dim of label L: the result's when the result declares L,
\* otherwise that of the first operand declaring L.
Canonical(L) ==
  IF L \in LabelsOf(result.Is) THEN result.dims[FirstAxis(result.Is, L)]
  ELSE DimOf(FirstOf(Declaring(L)), L)

\* C8: the loop of every label with a contributing dim runs over the bounds
\* of the first contributor, the result before the operands in call order,
\* and visits exactly that range.
C8_FirstContributorGoverns ==
  pc = "done" =>
    \A L \in 0..(Len(shape) - 1) :
      Contributes(L) =>
        /\ SameBounds(shape[L + 1], Canonical(L))
        /\ {trace[p][L + 1] : p \in 1..Len(trace)}
             = Canonical(L).min..dim_max(Canonical(L))

C8_Witness ==
  /\ pc = "done"
  /\ \E L \in LabelsOf(result.Is) :
       \E k \in Declaring(L) : StrictlyContains(DimOf(k, L), Canonical(L))

\* The coordinates of an index on the reduction axes: the labels that are
\* not in the result's label list.
Reduced(i) == [L \in {l \in 0..(Len(i) - 1) : l \notin LabelsOf(result.Is)} |-> i[L + 1]]

\* C9: the reduction axes are the outermost loops: once the loop has moved
\* on from a combination of reduction coordinates it never returns to it.
C9_ReductionsOutermost ==
  pc = "done" =>
    \A p \in 1..Len(trace), q \in 1..Len(trace), r \in 1..Len(trace) :
      (p < q /\ q < r /\ Reduced(trace[p]) = Reduced(trace[r]))
        => Reduced(trace[q]) = Reduced(trace[p])

\* C10: with the two operands passed in the other order, the call fails if
\* and only if it failed in the first order, and otherwise leaves the same
\* values in the result.
C10_OperandOrder ==
  (entry = "einsum" /\ swapped) =>
    /\ pc = "failed" => first.st = "failed"
    /\ pc = "done" => first.st = "done" /\ (calls = 1 => base = first.data)

\* C10 holds of every call that indexes its operands within their bounds.
C10_InBounds == ~oob => C10_OperandOrder

====
